---- MODULE Spec2Model ----
(***************************************************************************)
(* A model of bevy_flycam (src/src/lib.rs): the startup system             *)
(* initial_grab_cursor, the per-frame systems player_move, player_look and *)
(* cursor_grab, and the input layer that feeds them between frames.        *)
(*                                                                         *)
(* Angles are fixed-point, in milliradians; the argument of to_radians is  *)
(* in units of 1e-5 degree, the unit in which the default sensitivity      *)
(* 0.00012 is the integer 12.  Rotations and translations are kept         *)
(* symbolically: a rotation is the product of axis-angle factors it was    *)
(* built from, a translation the list of displacements added to it.        *)
(***************************************************************************)
EXTENDS Integers, Sequences, FiniteSets

\* ------------------------------------------------------------------ bounds

\* Frames the input layer delivers before the model stops.
MaxFrames == 2

\* Entities tagged FlyCam that the application itself spawned.
MaxUserCams == 1

\* --------------------------------------------------------------- constants

\* MovementSettings::default().sensitivity, 0.00012, in units of 1e-5.
Sensitivity == 12

\* MovementSettings::default().speed.
Speed == 12

\* The clamp of pitch, 1.54 rad, in milliradians.
PitchLimit == 1540

\* KeysBindings::default().
key_bindings ==
    [forward |-> "W", back |-> "S", right |-> "D", left |-> "A",
     up |-> "Space", down |-> "LShift", toggle_grab_cursor |-> "Escape"]

\* The keys the input layer reports: the bound ones.
KeyCodes == {"W", "S", "D", "A", "Space", "LShift", "Escape"}

\* CursorGrabMode.
GrabModes == {"None", "Confined", "Locked"}

\* The per-frame systems both plugins register.
Systems == {"player_move", "player_look", "cursor_grab"}

\* Ticks of the frame clock between two frames.
DeltaTicks == {1}

\* The window's cursor, <<grab mode, visible>>, as its descriptor may ask.
InitialCursors == {<<"None", TRUE>>, <<"Confined", TRUE>>, <<"Locked", FALSE>>}

\* Window sizes <<width, height>> the model draws from.
WindowSizes == {<<1920, 1080>>, <<600, 800>>}

\* Mouse-motion deltas <<dx, dy>>, in pixels, the model draws from: the
\* mouse moved right and down, and left and up.
DeltaDown == <<100, 800>>

DeltaUp == <<-100, -800>>

MotionDeltas == {DeltaDown, DeltaUp}

\* ------------------------------------------------------------ pure helpers

Min(a, b) == IF a <= b THEN a ELSE b

Abs(a) == IF a < 0 THEN -a ELSE a

\* f32::to_radians of x (1e-5 degree), in milliradians: x * pi / 180,
\* with pi / 180 taken as 0.01745, rounded toward zero.
ToRadians(x) ==
    LET mag == ((Abs(x) \div 1000) * 1745) \div 10000
    IN  IF x < 0 THEN -mag ELSE mag

\* Variant of Clamp that lets every value through.
ClampUnbounded(x, lo, hi) == x

\* f32::clamp.
Clamp(x, lo, hi) == IF x < lo THEN lo ELSE IF x > hi THEN hi ELSE x

\* Quat::from_axis_angle: a zero angle is the identity, the empty product.
FromAxisAngle(axis, angle) ==
    IF angle = 0 THEN << >> ELSE << [axis |-> axis, angle |-> angle] >>

\* Quat * Quat: the factors of a, then those of b; two rotations about the
\* same axis that meet are one rotation about it.
RECURSIVE QuatMul(_, _)
QuatMul(a, b) ==
    IF a = << >> THEN b
    ELSE IF b = << >> THEN a
    ELSE IF a[Len(a)].axis = b[1].axis
    THEN QuatMul(SubSeq(a, 1, Len(a) - 1),
                 FromAxisAngle(b[1].axis, a[Len(a)].angle + b[1].angle)
                     \o Tail(b))
    ELSE a \o b

\* Variant of LookRotation with pitch outside and yaw inside.
LookRotationPitchOuter(y, p) == QuatMul(FromAxisAngle("X", p), FromAxisAngle("Y", y))

\* The rotation player_look writes: yaw about Y outside, pitch about X inside.
LookRotation(y, p) == QuatMul(FromAxisAngle("Y", y), FromAxisAngle("X", p))

\* Transform::from_xyz(-2, 5, 5).looking_at(ZERO, Y): no roll, a yaw of
\* -atan(2/5) and a pitch of -asin(5/sqrt(54)), in milliradians.
SpawnRotation == << [axis |-> "Y", angle |-> -381], [axis |-> "X", angle |-> -748] >>

\* The camera setup_player spawns; its translation is the origin of the
\* displacements added later.
SpawnedCamera == [translation |-> << >>, rotation |-> SpawnRotation]

\* A camera an application spawns itself (NoCameraPlayerPlugin's use): the
\* default Transform, whose rotation is the identity.
UserCamera == [translation |-> << >>, rotation |-> << >>]

\* --------------------------------------------------------- vectors (Vec3)

\* Vectors are <<x, y, z>> in thousandths.  Sine and cosine of an angle in
\* milliradians, in thousandths, by their power series (six terms: the
\* angles of the model stay below two radians).
Cos(a) ==
    LET q == (a * a) \div 1000
        t5 == 1000 - (q * 1000) \div 90000
        t4 == 1000 - (q * t5) \div 56000
        t3 == 1000 - (q * t4) \div 30000
        t2 == 1000 - (q * t3) \div 12000
    IN  1000 - (q * t2) \div 2000

Sin(a) ==
    LET q == (a * a) \div 1000
        t5 == 1000 - (q * 1000) \div 110000
        t4 == 1000 - (q * t5) \div 72000
        t3 == 1000 - (q * t4) \div 42000
        t2 == 1000 - (q * t3) \div 20000
        t1 == 1000 - (q * t2) \div 6000
        mag == (Abs(a) * t1) \div 1000
    IN  IF a < 0 THEN -mag ELSE mag

\* Division rounding toward zero, as a float product rounds.
Div(a, b) == IF a < 0 THEN -((-a) \div b) ELSE a \div b

\* One axis-angle factor of a rotation applied to v.
RotateBy(factor, v) ==
    LET c == Cos(factor.angle)
        sn == Sin(factor.angle)
    IN  IF factor.axis = "Y"
        THEN <<Div(v[1] * c + v[3] * sn, 1000), v[2],
               Div(v[3] * c - v[1] * sn, 1000)>>
        ELSE <<v[1], Div(v[2] * c - v[3] * sn, 1000),
               Div(v[2] * sn + v[3] * c, 1000)>>

\* Quat * Vec3: the factors applied innermost (last) first.
RECURSIVE Rotate(_, _)
Rotate(rotation, v) ==
    IF rotation = << >> THEN v
    ELSE Rotate(SubSeq(rotation, 1, Len(rotation) - 1),
                RotateBy(rotation[Len(rotation)], v))

\* Transform::local_z: the rotation applied to Vec3::Z.
LocalZ(rotation) == Rotate(rotation, <<0, 0, 1000>>)

\* The largest r in lo..hi with r * r <= n.
RECURSIVE ISqrtIn(_, _, _)
ISqrtIn(n, lo, hi) ==
    IF lo >= hi THEN lo
    ELSE LET mid == (lo + hi + 1) \div 2
         IN  IF mid * mid <= n THEN ISqrtIn(n, mid, hi) ELSE ISqrtIn(n, lo, mid - 1)

\* Vec3 * f32.
Scaled(v, k) == <<v[1] * k, v[2] * k, v[3] * k>>

\* Vec3::length.
Length(v) == ISqrtIn(v[1] * v[1] + v[2] * v[2] + v[3] * v[3], 0, 46000)

\* Variant of NormalizeVector that leaves the length as it is.
NormalizeSkipped(v) == v

\* Vec3::normalize_or_zero as glam computes it: the vector times the
\* reciprocal of its length, or zero when that reciprocal is not a positive
\* finite number, which is when the length is zero.
\* (The length is taken of 16 v to keep three digits of it when v is short.)
NormalizeVector(v) ==
    LET w == <<16 * v[1], 16 * v[2], 16 * v[3]>>
        len == Length(w)
    IN  IF len = 0 THEN <<0, 0, 0>>
        ELSE <<Div(w[1] * 1000, len), Div(w[2] * 1000, len), Div(w[3] * 1000, len)>>

\* ------------------------------------------------------------- player_move

\* One pass of the match in player_move: what a held key adds to velocity,
\* as the coefficients of forward, right and Vec3::Y.  The first arm that
\* matches wins.
KeyVelocity(key) ==
    IF key = key_bindings.forward THEN [f |-> 1, r |-> 0, u |-> 0]
    ELSE IF key = key_bindings.back THEN [f |-> -1, r |-> 0, u |-> 0]
    ELSE IF key = key_bindings.left THEN [f |-> 0, r |-> -1, u |-> 0]
    ELSE IF key = key_bindings.right THEN [f |-> 0, r |-> 1, u |-> 0]
    ELSE IF key = key_bindings.up THEN [f |-> 0, r |-> 0, u |-> 1]
    ELSE IF key = key_bindings.down THEN [f |-> 0, r |-> 0, u |-> -1]
    ELSE [f |-> 0, r |-> 0, u |-> 0]

\* keys.get_pressed() iterates a hash set: the held keys in some order.
RECURSIVE KeyOrders(_)
KeyOrders(held) ==
    IF held = {} THEN {<< >>}
    ELSE UNION {{<<k>> \o rest : rest \in KeyOrders(held \ {k})} : k \in held}

\* What f32 rounding may leave of forward and right when they are added and
\* subtracted out of order, as a direction: nothing, or a few units in the
\* last place of one horizontal component.
NoResidue == <<0, 0, 0>>
Residues == {NoResidue, <<1, 0, 0>>, <<-1, 0, 0>>, <<0, 0, 1>>, <<0, 0, -1>>}

\* forward and right have a zero component each, and every sum of them is
\* exact, when the rotation has no part about Y.
AxisAligned(rotation) == \A i \in 1..Len(rotation) : rotation[i].axis # "Y"

\* velocity += ... for one key.  The sum is in f32: 0 + a, a - a and a + b
\* are what they should be, but (a + b) - a need not be b, so a horizontal
\* term taken back out of a sum of two is no longer exact.
VelocityStep(acc, add) ==
    [f |-> acc.f + add.f, r |-> acc.r + add.r, u |-> acc.u + add.u,
     exact |-> /\ acc.exact
               /\ ~(add.f # 0 /\ Abs(acc.f + add.f) < Abs(acc.f) /\ acc.r # 0)
               /\ ~(add.r # 0 /\ Abs(acc.r + add.r) < Abs(acc.r) /\ acc.f # 0)]

\* Variant of Velocity that adds whatever the grab mode is.
RECURSIVE VelocityAnyGrab(_, _)
VelocityAnyGrab(order, grab) ==
    IF order = << >> THEN [f |-> 0, r |-> 0, u |-> 0, exact |-> TRUE]
    ELSE VelocityStep(VelocityAnyGrab(SubSeq(order, 1, Len(order) - 1), grab),
                      KeyVelocity(order[Len(order)]))

\* The loop over keys.get_pressed(), in iteration order: nothing is added
\* while the grab mode is None.
RECURSIVE Velocity(_, _)
Velocity(order, grab) ==
    IF order = << >> \/ grab = "None" THEN [f |-> 0, r |-> 0, u |-> 0, exact |-> TRUE]
    ELSE VelocityStep(Velocity(SubSeq(order, 1, Len(order) - 1), grab),
                      KeyVelocity(order[Len(order)]))

\* What rounding may leave of the sum of the keys taken in `order`: nothing
\* if terms remain or every term was taken out exactly.
ResiduesOf(order, grab) ==
    LET v == Velocity(order, grab)
    IN  IF v.f = 0 /\ v.r = 0 /\ v.u = 0 /\ ~v.exact THEN Residues ELSE {NoResidue}

\* Whether every term of v has been taken out again by a sum that was not
\* exact: then v is not zero but what rounding left.  Next to a term that
\* remains, what rounding left is below the last place.
IsResidue(v, rotation) ==
    v.f = 0 /\ v.r = 0 /\ v.u = 0 /\ ~v.exact /\ ~AxisAligned(rotation)

\* The velocity as a vector: f * forward + r * right + u * Vec3::Y with
\* forward and right from the local z axis of `rotation`, or `residue`.
VelocityVector(v, rotation, residue) ==
    LET lz == LocalZ(rotation)
    IN  IF IsResidue(v, rotation) THEN residue
        ELSE IF v.f = 0 /\ v.r = 0 THEN <<0, v.u * 1000, 0>>
        ELSE <<-v.f * lz[1] + v.r * lz[3], v.u * 1000, -v.f * lz[3] - v.r * lz[1]>>

\* Vec3::ZERO, and what normalize_or_zero makes of a zero sum.
ZeroVector == [f |-> 0, r |-> 0, u |-> 0, basis |-> << >>, residue |-> FALSE]

\* Variant of NormalizeOrZero whose vertical result depends on the rotation.
NormalizeKeepsBasis(v, rotation) ==
    [f |-> v.f, r |-> v.r, u |-> v.u,
     basis |-> IF v.f = 0 /\ v.r = 0 /\ v.u = 0 THEN << >> ELSE rotation,
     residue |-> IsResidue(v, rotation)]

\* Vec3::normalize_or_zero of f * forward + r * right + u * Y, where forward
\* and right come from the local z axis of `rotation`, as a direction: the
\* zero vector stays zero; a purely vertical sum is +-Y whatever the
\* rotation is; `residue` tells what rounding left of a zero sum from zero.
NormalizeOrZero(v, rotation) ==
    [f |-> v.f, r |-> v.r, u |-> v.u,
     basis |-> IF v.f = 0 /\ v.r = 0 THEN << >> ELSE rotation,
     residue |-> IsResidue(v, rotation)]

\* Variant of MoveCamera that also resets the rotation.
MoveCameraResetsRotation(cam, grab, order, dt, residue) ==
    [translation |-> Append(cam.translation,
                            [direction |-> ZeroVector, by |-> dt * Speed,
                             delta |-> <<0, 0, 0>>]),
     rotation |-> << >>]

\* The body of the loop over the query in player_move, for one camera:
\* each addition to translation is kept with its direction, its scale and
\* its value as a vector.
MoveCamera(cam, grab, order, dt, residue) ==
    LET v == Velocity(order, grab)
        velocity == NormalizeVector(VelocityVector(v, cam.rotation, residue))
    IN  IF velocity = <<0, 0, 0>> THEN cam
        ELSE [cam EXCEPT !.translation =
                  Append(@, [direction |-> NormalizeOrZero(v, cam.rotation),
                             by |-> dt * Speed,
                             delta |-> Scaled(velocity, dt * Speed)])]

\* Variant of PlayerMoveCams that does not ask for the primary window.
PlayerMoveCamsAnyWindow(cs, has_window, grab, order, dt, residue) ==
    [i \in 1..Len(cs) |-> MoveCamera(cs[i], grab, order, dt, residue)]

\* player_move: every camera of the query, or a warning without a window.
PlayerMoveCams(cs, has_window, grab, order, dt, residue) ==
    IF has_window
    THEN [i \in 1..Len(cs) |-> MoveCamera(cs[i], grab, order, dt, residue)]
    ELSE cs

\* ------------------------------------------------------------- player_look

\* Variant of WindowScale that takes the height.
WindowScaleHeight(size) == size[2]

\* window.height().min(window.width()).
WindowScale(size) == Min(size[2], size[1])

\* Variant of LookEvent that turns whatever the grab mode is.
LookEventAnyGrab(st, ev, grab, size) ==
    LET moved == [st EXCEPT
                    !.pitch = @ - ToRadians(Sensitivity * ev[2] * WindowScale(size)),
                    !.yaw = @ - ToRadians(Sensitivity * ev[1] * WindowScale(size))]
        p == Clamp(moved.pitch, -PitchLimit, PitchLimit)
    IN  [pitch |-> p, yaw |-> moved.yaw, rotation |-> LookRotation(moved.yaw, p)]

\* One pass of the loop over the motion events: st holds pitch, yaw and the
\* rotation of the camera being written.
LookEvent(st, ev, grab, size) ==
    LET moved == IF grab = "None" THEN st
                 ELSE [st EXCEPT
                         !.pitch = @ - ToRadians(Sensitivity * ev[2] * WindowScale(size)),
                         !.yaw = @ - ToRadians(Sensitivity * ev[1] * WindowScale(size))]
        p == Clamp(moved.pitch, -PitchLimit, PitchLimit)
    IN  [pitch |-> p, yaw |-> moved.yaw, rotation |-> LookRotation(moved.yaw, p)]

\* Variants of LookEvent and LookEvents that clamp pitch once, after the
\* last event.
LookEventUnclamped(st, ev, grab, size) ==
    IF grab = "None" THEN st
    ELSE [st EXCEPT
            !.pitch = @ - ToRadians(Sensitivity * ev[2] * WindowScale(size)),
            !.yaw = @ - ToRadians(Sensitivity * ev[1] * WindowScale(size))]

RECURSIVE LookEventsUnclamped(_, _, _, _)
LookEventsUnclamped(st, evs, grab, size) ==
    IF evs = << >> THEN st
    ELSE LookEventsUnclamped(LookEventUnclamped(st, Head(evs), grab, size),
                             Tail(evs), grab, size)

LookEventsClampAtEnd(st, evs, grab, size) ==
    IF evs = << >> THEN st
    ELSE LET u == LookEventsUnclamped(st, evs, grab, size)
             p == Clamp(u.pitch, -PitchLimit, PitchLimit)
         IN  [pitch |-> p, yaw |-> u.yaw, rotation |-> LookRotation(u.yaw, p)]

RECURSIVE LookEvents(_, _, _, _)
LookEvents(st, evs, grab, size) ==
    IF evs = << >> THEN st
    ELSE LookEvents(LookEvent(st, Head(evs), grab, size), Tail(evs), grab, size)

\* Variant of Unread that starts from the head of the log.
UnreadFromStart(events, cursor) == [i \in 1..Len(events) |-> i]

\* ManualEventReader::iter: the positions in the log of the events after the
\* reader's cursor, in order.
Unread(events, cursor) == [i \in 1..(Len(events) - cursor) |-> cursor + i]

\* Variant of PlayerLookState that iterates the reader outside the query.
PlayerLookStateNoQuery(s, has_window, grab, size, events) ==
    IF ~has_window
    THEN [cams |-> s.cams, pitch |-> s.pitch, yaw |-> s.yaw,
          last_event_count |-> s.last_event_count, read |-> << >>]
    ELSE LET ids == Unread(events, s.last_event_count)
             st == LookEvents([pitch |-> s.pitch, yaw |-> s.yaw, rotation |-> << >>],
                              [i \in 1..Len(ids) |-> events[ids[i]]], grab, size)
         IN  [cams |-> [i \in 1..Len(s.cams) |->
                            [s.cams[i] EXCEPT !.rotation = st.rotation]],
              pitch |-> st.pitch, yaw |-> st.yaw,
              last_event_count |-> Len(events), read |-> ids]

\* player_look on s = [cams, pitch, yaw, last_event_count]: the reader is
\* iterated inside the loop over the query, so the first camera's pass
\* reads every unread event and the passes of the other cameras read none.
\* `read` lists the positions of the events read.
PlayerLookState(s, has_window, grab, size, events) ==
    IF ~has_window \/ s.cams = << >>
    THEN [cams |-> s.cams, pitch |-> s.pitch, yaw |-> s.yaw,
          last_event_count |-> s.last_event_count, read |-> << >>]
    ELSE LET ids == Unread(events, s.last_event_count)
             st == LookEvents([pitch |-> s.pitch, yaw |-> s.yaw,
                               rotation |-> s.cams[1].rotation],
                              [i \in 1..Len(ids) |-> events[ids[i]]], grab, size)
         IN  [cams |-> [s.cams EXCEPT ![1].rotation = st.rotation],
              pitch |-> st.pitch, yaw |-> st.yaw,
              last_event_count |-> Len(events), read |-> ids]

\* ------------------------------------------------------ toggle_grab_cursor

\* Variant of ToggleGrabCursor that grabs a cursor already grabbed.
ToggleNeverReleases(w) ==
    [cursor_grab_mode |-> "Confined", cursor_visible |-> FALSE]

\* Variant of ToggleGrabCursor whose release leaves the visibility alone.
ToggleKeepsVisibility(w) ==
    IF w.cursor_grab_mode = "None"
    THEN [cursor_grab_mode |-> "Confined", cursor_visible |-> FALSE]
    ELSE [cursor_grab_mode |-> "None", cursor_visible |-> w.cursor_visible]

\* toggle_grab_cursor on w = [cursor_grab_mode, cursor_visible].
ToggleGrabCursor(w) ==
    IF w.cursor_grab_mode = "None"
    THEN [cursor_grab_mode |-> "Confined", cursor_visible |-> FALSE]
    ELSE [cursor_grab_mode |-> "None", cursor_visible |-> TRUE]

\* ------------------------------------------------------------------- state

VARIABLES
    phase,              \* "startup" before the startup systems ran, then "update"
    frame,              \* frames delivered so far
    ran,                \* the systems that already ran in the current frame
    primary,            \* whether Windows holds a primary window
    cursor_grab_mode,   \* Window::cursor_grab_mode()
    cursor_visible,     \* Window's cursor visibility
    window_size,        \* <<width, height>> of the window
    pressed,            \* Input<KeyCode>: the keys held down
    just_pressed,       \* Input<KeyCode>: the keys that went down this frame
    delta_seconds,      \* Time::delta_seconds(), in ticks
    motion,             \* Events<MouseMotion>: every event sent, in order
    last_event_count,   \* InputState.reader_motion: events the reader has read
    pitch,              \* InputState.pitch
    yaw,                \* InputState.yaw
    cams,               \* the Transforms of the entities tagged FlyCam, in query order
    read_log,           \* history: the index of every event read, in reading order
    toggles,            \* history: calls of toggle_grab_cursor so far (0, 1, or 2 for more)
    hold,               \* history: cursor_grab since the toggle key last went down
    frame_grab,         \* history: the grab mode when the current frame began
    frame_toggled       \* history: whether cursor_grab toggled in the current frame

vars == <<phase, frame, ran, primary, cursor_grab_mode, cursor_visible,
          window_size, pressed, just_pressed, delta_seconds, motion,
          last_event_count, pitch, yaw, cams, read_log, toggles, hold,
          frame_grab, frame_toggled>>

windowVars == <<cursor_grab_mode, cursor_visible, toggles>>
lookVars == <<last_event_count, pitch, yaw, read_log>>
inputVars == <<primary, window_size, pressed, just_pressed, delta_seconds, motion>>

NoHold == [runs |-> 0, flips |-> 0, window |-> FALSE]

\* Sequences over S of length at most n.
SeqUpTo(S, n) == UNION {[1..k -> S] : k \in 0..n}

\* The state when App::run begins: InputState::default(), no key down, no
\* event sent, the window as its descriptor asked for it, and the cameras
\* the application spawned itself.
Init ==
    /\ phase = "startup"
    /\ frame = 0
    /\ ran = Systems
    /\ primary \in BOOLEAN
    /\ \E c \in InitialCursors : cursor_grab_mode = c[1] /\ cursor_visible = c[2]
    /\ window_size \in WindowSizes
    /\ pressed = {}
    /\ just_pressed = {}
    /\ delta_seconds = 1
    /\ motion = << >>
    /\ last_event_count = 0
    /\ pitch = 0
    /\ yaw = 0
    /\ cams \in SeqUpTo({UserCamera}, MaxUserCams)
    /\ read_log = << >>
    /\ toggles = 0
    /\ hold = NoHold
    /\ frame_grab = cursor_grab_mode
    /\ frame_toggled = FALSE

\* ----------------------------------------------------------------- actions

\* A call of toggle_grab_cursor on the primary window.
Toggle ==
    LET w == ToggleGrabCursor([cursor_grab_mode |-> cursor_grab_mode,
                               cursor_visible |-> cursor_visible])
    IN  /\ cursor_grab_mode' = w.cursor_grab_mode
        /\ cursor_visible' = w.cursor_visible
        /\ toggles' = Min(toggles + 1, 2)

\* initial_grab_cursor: toggle the primary window's cursor, or warn.
InitialGrabCursor ==
    IF primary THEN Toggle ELSE UNCHANGED windowVars

\* The startup stage of PlayerPlugin: setup_player and initial_grab_cursor.
StartupPlayerPlugin ==
    /\ phase = "startup"
    /\ phase' = "update"
    /\ InitialGrabCursor
    /\ cams' = Append(cams, SpawnedCamera)
    /\ frame_grab' = cursor_grab_mode'
    /\ UNCHANGED <<frame, ran, inputVars, lookVars, hold, frame_toggled>>

\* The startup stage of NoCameraPlayerPlugin: initial_grab_cursor alone.
StartupNoCameraPlayerPlugin ==
    /\ phase = "startup"
    /\ phase' = "update"
    /\ InitialGrabCursor
    /\ frame_grab' = cursor_grab_mode'
    /\ UNCHANGED <<frame, ran, inputVars, lookVars, cams, hold, frame_toggled>>

\* Between two frames the input layer sets the held keys (a key is just
\* pressed in the frame it goes down), appends the motion events that
\* arrived, and the clock advances; the primary window may come or go.
NextFrame(keysets, bursts) ==
    /\ phase = "update"
    /\ ran = Systems
    /\ frame < MaxFrames
    /\ frame' = frame + 1
    /\ ran' = {}
    /\ primary' \in BOOLEAN
    /\ pressed' \in keysets
    /\ just_pressed' = pressed' \ pressed
    /\ \E burst \in bursts : motion' = motion \o burst
    /\ delta_seconds' \in DeltaTicks
    /\ hold' = IF key_bindings.toggle_grab_cursor \in pressed' \ just_pressed'
               THEN hold ELSE NoHold
    /\ frame_grab' = cursor_grab_mode
    /\ frame_toggled' = FALSE
    /\ UNCHANGED <<phase, windowVars, window_size, lookVars, cams>>

\* The system player_move.
PlayerMove ==
    /\ phase = "update"
    /\ "player_move" \notin ran
    /\ ran' = ran \cup {"player_move"}
    /\ \E order \in KeyOrders(pressed) :
       \E residue \in ResiduesOf(order, cursor_grab_mode) :
           cams' = PlayerMoveCams(cams, primary, cursor_grab_mode, order,
                                  delta_seconds, residue)
    /\ UNCHANGED <<phase, frame, inputVars, windowVars, lookVars, hold,
                   frame_grab, frame_toggled>>

\* The system player_look.
PlayerLook ==
    LET s == PlayerLookState([cams |-> cams, pitch |-> pitch, yaw |-> yaw,
                              last_event_count |-> last_event_count],
                             primary, cursor_grab_mode, window_size, motion)
    IN  /\ phase = "update"
        /\ "player_look" \notin ran
        /\ ran' = ran \cup {"player_look"}
        /\ cams' = s.cams
        /\ pitch' = s.pitch
        /\ yaw' = s.yaw
        /\ last_event_count' = s.last_event_count
        /\ read_log' = read_log \o s.read
        /\ UNCHANGED <<phase, frame, inputVars, windowVars, hold,
                       frame_grab, frame_toggled>>

\* Variant of CursorGrabToggles that tests keys.pressed.
CursorGrabTogglesWhileHeld(has_window, just) ==
    has_window /\ key_bindings.toggle_grab_cursor \in pressed

\* Whether cursor_grab toggles: a primary window, and the bound key just
\* pressed.
CursorGrabToggles(has_window, just) ==
    has_window /\ key_bindings.toggle_grab_cursor \in just

\* The system cursor_grab.
CursorGrab ==
    /\ phase = "update"
    /\ "cursor_grab" \notin ran
    /\ ran' = ran \cup {"cursor_grab"}
    /\ IF CursorGrabToggles(primary, just_pressed)
       THEN Toggle /\ frame_toggled' = TRUE
       ELSE UNCHANGED <<windowVars, frame_toggled>>
    /\ hold' = IF key_bindings.toggle_grab_cursor \in pressed
               THEN [runs |-> Min(hold.runs + 1, MaxFrames + 1),
                     flips |-> hold.flips +
                               (IF cursor_grab_mode' = cursor_grab_mode THEN 0 ELSE 1),
                     window |-> IF hold.runs = 0 THEN primary ELSE hold.window]
               ELSE hold
    /\ UNCHANGED <<phase, frame, inputVars, lookVars, cams, frame_grab>>

\* The key sets and the bursts of motion events the input layer delivers.
KeySets == {{}, {"W"}, {"Escape"}, {"Space", "Escape"}}

Bursts == {<< >>, <<DeltaUp>>, <<DeltaDown, DeltaUp>>}

Next ==
    \/ StartupPlayerPlugin
    \/ StartupNoCameraPlayerPlugin
    \/ NextFrame(KeySets, Bursts)
    \/ PlayerMove
    \/ PlayerLook
    \/ CursorGrab

Spec == Init /\ [][Next]_vars

\* ------------------------------------------- player_move over all key sets

\* Poses a fly camera can have when a frame begins, with the yaw and pitch
\* they were written from: the default Transform, the spawned camera, and
\* cameras player_look has turned.
MovePoses ==
    {[rotation |-> << >>, pitch |-> 0, yaw |-> 0],
     [rotation |-> SpawnRotation, pitch |-> 0, yaw |-> 0],
     [rotation |-> LookRotation(-226, 0), pitch |-> 0, yaw |-> -226],
     [rotation |-> LookRotation(226, PitchLimit), pitch |-> PitchLimit, yaw |-> 226]}

\* Ticks of the frame clock between two frames.
MoveTicks == {1, 2}

\* The sets of held keys: every set of keys bound to a direction, and some
\* with the toggle key, which player_move passes over.
MoveKeySets ==
    (SUBSET (KeyCodes \ {key_bindings.toggle_grab_cursor}))
        \cup {{key_bindings.toggle_grab_cursor},
              {key_bindings.forward, key_bindings.toggle_grab_cursor},
              {key_bindings.forward, key_bindings.back,
               key_bindings.toggle_grab_cursor}}

\* A frame about to run its systems, with any of these sets of keys held.
InitMove ==
    /\ phase = "update"
    /\ frame = 1
    /\ ran = {}
    /\ primary \in BOOLEAN
    /\ \E c \in InitialCursors : cursor_grab_mode = c[1] /\ cursor_visible = c[2]
    /\ window_size = <<1920, 1080>>
    /\ pressed \in MoveKeySets
    /\ just_pressed = {}
    /\ delta_seconds \in MoveTicks
    /\ motion = << >>
    /\ last_event_count = 0
    /\ \E pose \in MovePoses :
           /\ pitch = pose.pitch
           /\ yaw = pose.yaw
           /\ cams = << [translation |-> << >>, rotation |-> pose.rotation] >>
    /\ read_log = << >>
    /\ toggles = 1
    /\ hold = NoHold
    /\ frame_grab = cursor_grab_mode
    /\ frame_toggled = FALSE

NextMove == PlayerMove

SpecMove == InitMove /\ [][NextMove]_vars

\* ------------------------------------------- player_look over more deltas

\* Window sizes <<width, height>>: wide, tall and small.
LookWindowSizes == {<<1920, 1080>>, <<1080, 1920>>, <<600, 800>>}

\* Mouse-motion deltas <<dx, dy>>: to the right only, far down only (pitch
\* decreases), and a little up only.
DeltaRight == <<100, 0>>
DeltaLower == <<0, 800>>
DeltaRaise == <<0, -100>>

\* The bursts of motion events that arrive between two frames.
LookBursts ==
    {<<DeltaRight>>, <<DeltaLower>>, <<DeltaRaise>>,
     <<DeltaLower, DeltaLower>>, <<DeltaLower, DeltaRaise>>}

\* After the startup stage of PlayerPlugin with a primary window, whose
\* cursor initial_grab_cursor has toggled once.
InitLook ==
    /\ phase = "update"
    /\ frame = 0
    /\ ran = Systems
    /\ primary = TRUE
    /\ \E c \in InitialCursors :
           LET w == ToggleGrabCursor([cursor_grab_mode |-> c[1], cursor_visible |-> c[2]])
           IN  cursor_grab_mode = w.cursor_grab_mode /\ cursor_visible = w.cursor_visible
    /\ window_size \in LookWindowSizes
    /\ pressed = {}
    /\ just_pressed = {}
    /\ delta_seconds = 1
    /\ motion = << >>
    /\ last_event_count = 0
    /\ pitch = 0
    /\ yaw = 0
    /\ cams = <<SpawnedCamera>>
    /\ read_log = << >>
    /\ toggles = 1
    /\ hold = NoHold
    /\ frame_grab = cursor_grab_mode
    /\ frame_toggled = FALSE

\* No key is touched; the mouse moves between frames.
NextLook ==
    \/ NextFrame({{}}, LookBursts)
    \/ PlayerMove
    \/ PlayerLook
    \/ CursorGrab

SpecLook == InitLook /\ [][NextLook]_vars

\* ------------------------------------------------------------------ claims

\* A step of player_look, of player_move, of the startup stage.
LookStep == "player_look" \notin ran /\ "player_look" \in ran'

MoveStep == "player_move" \notin ran /\ "player_move" \in ran'

\* The rotations of all cameras.
Rotations(cs) == [i \in 1..Len(cs) |-> cs[i].rotation]

\* C1: in every reachable state the stored pitch lies in [-1.54, 1.54].
C1_PitchInRange == -PitchLimit <= pitch /\ pitch <= PitchLimit

\* C1's case: events were read and pitch sits on the upper limit.
C1_Witness == pitch = PitchLimit /\ read_log # << >>

\* C2: a player_look tick run with grab mode None leaves pitch and yaw as
\* they were, whatever events are pending.
C2_FreeCursorKeepsPitchYaw ==
    [][(LookStep /\ cursor_grab_mode = "None") => (pitch' = pitch /\ yaw' = yaw)]_vars

\* C2's case: player_look ran in a frame that began and still is ungrabbed,
\* it read the one event sent so far, and pitch and yaw are still zero.
C2_Witness ==
    /\ "player_look" \in ran
    /\ frame_grab = "None" /\ cursor_grab_mode = "None"
    /\ primary
    /\ read_log = <<1>>
    /\ pitch = 0 /\ yaw = 0

\* C3 (as claimed): a player_look tick run with grab mode None leaves every
\* fly camera's rotation as it was.
C3_FreeCursorKeepsRotation ==
    [][(LookStep /\ cursor_grab_mode = "None") => Rotations(cams') = Rotations(cams)]_vars

\* C4: the reader's cursor only moves forward and never passes the end of
\* the log; the events read so far are the events 1 .. cursor, each once and
\* in order; and a player_look tick with a window and a camera reads up to
\* the end of the log.
C4_EachEventReadOnce ==
    [][/\ last_event_count' >= last_event_count
       /\ last_event_count' <= Len(motion')
       /\ read_log' = [i \in 1..last_event_count' |-> i]
       /\ (LookStep /\ primary /\ cams # << >>) => last_event_count' = Len(motion)]_vars

\* C4's case: three events were read, in two ticks at least.
C4_Witness == read_log = <<1, 2, 3>> /\ frame = 2

\* C5: while the toggle key stays down, however many times cursor_grab has
\* run since it went down, the grab state has flipped exactly once - in the
\* run of the frame in which the key went down (given a primary window in
\* that frame; without one there is no grab state to flip).
C5_ToggleOncePerPress ==
    hold.runs >= 1 => hold.flips = (IF hold.window THEN 1 ELSE 0)

\* C5's case: the key has been down for two runs of cursor_grab, the first
\* with a window, and there was one flip.
C5_Witness == hold.runs >= 2 /\ hold.window /\ hold.flips = 1

\* What player_look and player_move would do in the current state if the
\* grab mode were `grab`.
LookWith(grab) ==
    PlayerLookState([cams |-> cams, pitch |-> pitch, yaw |-> yaw,
                     last_event_count |-> last_event_count],
                    primary, grab, window_size, motion)

MoveWith(grab) ==
    UNION {{PlayerMoveCams(cams, primary, grab, order, delta_seconds, residue) :
                residue \in ResiduesOf(order, grab)} : order \in KeyOrders(pressed)}

\* A step of player_look or player_move that acts as on grab mode `grab`.
ActsOn(grab) ==
    /\ LookStep => /\ cams' = LookWith(grab).cams
                   /\ pitch' = LookWith(grab).pitch
                   /\ yaw' = LookWith(grab).yaw
    /\ MoveStep => cams' \in MoveWith(grab)

\* C6 (as claimed): in every frame, also one in which cursor_grab toggles,
\* player_move and player_look act on the grab mode the frame began with.
C6_ActOnFrameStartGrab == [][ActsOn(frame_grab)]_vars

\* C6 (amended): player_move and player_look act on the grab mode the frame
\* began with if they run before cursor_grab toggles in that frame, and on
\* the toggled mode if they run after it.
C6_ActOnGrabAsOrdered ==
    [][ActsOn(IF ~frame_toggled THEN frame_grab
              ELSE IF frame_grab = "None" THEN "Confined" ELSE "None")]_vars

\* C6's case: the frame began grabbed, cursor_grab toggled, and player_look
\* then read the one event sent so far without turning: it ran after the
\* toggle and acted on the toggled mode.
C6_Witness ==
    /\ frame_grab # "None" /\ frame_toggled
    /\ "player_look" \in ran
    /\ primary /\ cams # << >>
    /\ read_log = <<1>>
    /\ pitch = 0 /\ yaw = 0

\* A frame in which neither player_move nor player_look has run.
BeforeMoveAndLook ==
    phase = "update" /\ "player_move" \notin ran /\ "player_look" \notin ran

\* player_move then player_look, and player_look then player_move, from the
\* current state: the cameras, pitch, yaw and the reader's cursor after both.
\* player_move iterates the held keys in `order` and rounds as `residue`.
MoveThenLook(order, residue) ==
    PlayerLookState([cams |-> PlayerMoveCams(cams, primary, cursor_grab_mode,
                                             order, delta_seconds, residue),
                     pitch |-> pitch,
                     yaw |-> yaw, last_event_count |-> last_event_count],
                    primary, cursor_grab_mode, window_size, motion)

LookThenMove(order, residue) ==
    LET s == LookWith(cursor_grab_mode)
    IN  [s EXCEPT !.cams = PlayerMoveCams(s.cams, primary, cursor_grab_mode,
                                          order, delta_seconds, residue)]

\* C7 (as claimed): both orders give the same translations and rotations.
C7_MoveLookCommute ==
    BeforeMoveAndLook =>
        \A order \in KeyOrders(pressed) :
        \A residue \in ResiduesOf(order, cursor_grab_mode) :
            MoveThenLook(order, residue).cams = LookThenMove(order, residue).cams

\* The keys bound to movement in the horizontal plane.
HorizontalKeys ==
    {key_bindings.forward, key_bindings.back, key_bindings.left, key_bindings.right}

\* C7 (amended): both orders give the same rotations, pitch, yaw and cursor;
\* they give a camera the same translation if player_look leaves that
\* camera's rotation as it is in this tick, if no forward, back, left or
\* right key is held, or if the cursor is not grabbed.
C7_MoveLookCommuteUpToHeading ==
    BeforeMoveAndLook =>
        \A order \in KeyOrders(pressed) :
        \A residue \in ResiduesOf(order, cursor_grab_mode) :
        LET ml == MoveThenLook(order, residue)
            lm == LookThenMove(order, residue)
        IN  /\ Rotations(ml.cams) = Rotations(lm.cams)
            /\ ml.pitch = lm.pitch /\ ml.yaw = lm.yaw
            /\ ml.last_event_count = lm.last_event_count
            /\ \A i \in 1..Len(cams) :
                   (\/ lm.cams[i].rotation = cams[i].rotation
                    \/ pressed \cap HorizontalKeys = {}
                    \/ cursor_grab_mode = "None")
                       => ml.cams[i].translation = lm.cams[i].translation

\* C7's case: a grabbed frame with an unread event that turns the first
\* camera and the up key held, before player_move and player_look run.
C7_Witness ==
    /\ BeforeMoveAndLook /\ primary /\ cursor_grab_mode # "None"
    /\ key_bindings.up \in pressed
    /\ cams # << >>
    /\ \E order \in KeyOrders(pressed) :
           LET lm == LookThenMove(order, <<0, 0, 0>>)
           IN  /\ lm.cams[1].rotation # cams[1].rotation
               /\ lm.cams[1].translation # cams[1].translation

\* C8 (as claimed): after a player_look tick that read at least one event
\* while grabbed, every fly camera carries the rotation composed from the
\* updated yaw and pitch.
C8_AllCamerasTurn ==
    [][(LookStep /\ primary /\ cursor_grab_mode # "None" /\ read_log' # read_log)
          => \A i \in 1..Len(cams') : cams'[i].rotation = LookRotation(yaw', pitch')]_vars

\* C9: once toggle_grab_cursor has been called, at startup or later, the
\* cursor is visible exactly when the grab mode is None.
C9_GrabHidesCursor == toggles >= 1 => (cursor_visible <=> cursor_grab_mode = "None")

\* C9's case: two toggles, the second one a release.
C9_Witness == toggles = 2 /\ cursor_grab_mode = "None" /\ cursor_visible

\* C10 (as claimed): right after the startup stage ran with a primary
\* window, the grab mode is not None.
C10_StartsCaptured ==
    (phase = "update" /\ frame = 0 /\ primary) => cursor_grab_mode # "None"

\* A step of the system cursor_grab, and the step into the next frame.
GrabStep == "cursor_grab" \notin ran /\ "cursor_grab" \in ran'

FrameStep == frame' # frame

\* The translations of all cameras.
Translations(cs) == [i \in 1..Len(cs) |-> cs[i].translation]

\* C11: the grab mode and the cursor's visibility change only when the
\* toggle key has just been pressed: player_move and player_look leave
\* them, the step into the next frame leaves them, cursor_grab leaves them
\* in a frame in which the key was not just pressed, and, given a primary
\* window, each just-pressed toggle takes a grabbed cursor to None and a
\* free one to a grabbed mode.
C11_GrabChangesOnlyByToggle ==
    [][/\ (MoveStep \/ LookStep \/ FrameStep)
           => UNCHANGED <<cursor_grab_mode, cursor_visible>>
       /\ (GrabStep /\ key_bindings.toggle_grab_cursor \notin just_pressed)
           => UNCHANGED <<cursor_grab_mode, cursor_visible>>
       /\ (GrabStep /\ key_bindings.toggle_grab_cursor \in just_pressed /\ primary)
           => /\ (cursor_grab_mode = "None") # (cursor_grab_mode' = "None")
              /\ cursor_visible' = (cursor_grab_mode' = "None")]_vars

\* C11's case: a frame that began grabbed, in which all three systems ran
\* and the toggle key, just pressed, released the cursor.
C11_Witness ==
    /\ ran = Systems /\ frame_toggled
    /\ frame_grab # "None" /\ cursor_grab_mode = "None" /\ cursor_visible

\* C12: without a primary window player_move, player_look and cursor_grab
\* leave every translation and rotation, pitch, yaw, the reader's cursor
\* and the grab state as they are, and so does initial_grab_cursor for the
\* grab state.
C12_NoWindowNoChange ==
    [][/\ (phase = "update" /\ ~primary /\ (MoveStep \/ LookStep \/ GrabStep))
           => UNCHANGED <<cams, pitch, yaw, last_event_count,
                          cursor_grab_mode, cursor_visible>>
       /\ (phase = "startup" /\ ~primary)
           => UNCHANGED <<pitch, yaw, last_event_count,
                          cursor_grab_mode, cursor_visible>>]_vars

\* C12's case: startup found no window, so nothing ever toggled the grab
\* mode the window was created with, and a later tick with a window read
\* events and turned the camera.
C12_Witness ==
    /\ toggles = 0 /\ phase = "update" /\ primary
    /\ "player_look" \in ran /\ read_log # << >> /\ pitch # 0

\* C18: player_move leaves rotations, pitch, yaw and the reader's cursor;
\* player_look leaves translations; cursor_grab leaves both.
C18_DisjointPoseFields ==
    [][/\ MoveStep => UNCHANGED <<pitch, yaw, last_event_count, read_log>>
                      /\ Rotations(cams') = Rotations(cams)
       /\ LookStep => Translations(cams') = Translations(cams)
       /\ GrabStep => UNCHANGED <<cams, pitch, yaw, last_event_count>>]_vars

\* C18's case: a frame in which player_move has moved the first camera,
\* player_look has turned it and cursor_grab has toggled.
C18_Witness ==
    /\ ran = Systems /\ frame = 1 /\ frame_toggled
    /\ cams # << >>
    /\ cams[1].translation # << >>
    /\ read_log # << >> /\ pitch # 0

\* C20: with a primary window and at least one fly camera, a player_look
\* tick leaves the reader's cursor at the end of the log, grabbed or not;
\* with a window and no fly camera it reads no event and leaves pitch, yaw
\* and the cursor as they are.
C20_ReadsOnlyWithACamera ==
    [][/\ (LookStep /\ primary /\ cams # << >>)
           => last_event_count' = Len(motion)
       /\ (LookStep /\ primary /\ cams = << >>)
           => UNCHANGED <<last_event_count, pitch, yaw, read_log>>]_vars

\* C20's case: player_look has run with a window, a grabbed cursor and no
\* fly camera, and the events sent are still unread.
C20_Witness ==
    /\ "player_look" \in ran /\ primary /\ cursor_grab_mode # "None"
    /\ cams = << >>
    /\ motion # << >> /\ last_event_count = 0

\* C13: with the grab mode None, player_move leaves every fly camera's
\* translation as it is, whatever keys are held.
C13_FreeCursorNoMove ==
    [][(MoveStep /\ cursor_grab_mode = "None")
          => Translations(cams') = Translations(cams)]_vars

\* C13's case: player_move has run with a window, a free cursor and the
\* forward, right and up keys held, and the camera is where it was.
C13_Witness ==
    /\ "player_move" \in ran /\ primary /\ cursor_grab_mode = "None"
    /\ pressed = {key_bindings.forward, key_bindings.right, key_bindings.up}
    /\ cams[1].translation = << >>

\* The pairs of keys bound to opposite directions.
OppositePairs ==
    {{key_bindings.forward, key_bindings.back},
     {key_bindings.left, key_bindings.right},
     {key_bindings.up, key_bindings.down}}

\* C14 (as claimed): while grabbed, with the keys held being one or more
\* opposite pairs and nothing else, player_move leaves every translation
\* as it is.
C14_OppositePairsCancel ==
    [][(/\ MoveStep /\ primary /\ cursor_grab_mode # "None"
        /\ pressed # {}
        /\ \E pairs \in SUBSET OppositePairs : pressed = UNION pairs)
          => Translations(cams') = Translations(cams)]_vars

\* Whether a length is within a hundredth of what it should be.
Within(len, target) == Abs(len - target) * 100 <= target

\* The keys bound to a direction.
MovementKeys == HorizontalKeys \cup {key_bindings.up, key_bindings.down}

\* Whether the terms of the held keys sum to zero as numbers.
SumsToZero(held) ==
    /\ (key_bindings.forward \in held) = (key_bindings.back \in held)
    /\ (key_bindings.left \in held) = (key_bindings.right \in held)
    /\ (key_bindings.up \in held) = (key_bindings.down \in held)

\* C15: what player_move adds to a translation is a vector of length 1
\* (within a hundredth) times delta_seconds * speed, or nothing: a sum of
\* key terms that is not zero always adds such a vector (forward and right
\* held, one tick, speed 12: a vector of length 12); no movement key held,
\* a free cursor, or one opposite pair alone adds nothing.
C15_UnitOrZero ==
    [][MoveStep =>
          \A i \in 1..Len(cams) :
              LET old == cams[i].translation
                  new == cams'[i].translation
                  grabbed == primary /\ cursor_grab_mode # "None"
              IN  /\ Len(new) <= Len(old) + 1
                  /\ SubSeq(new, 1, Len(old)) = old
                  /\ Len(new) > Len(old)
                       => /\ new[Len(new)].by = delta_seconds * Speed
                          /\ Within(Length(new[Len(new)].delta),
                                    delta_seconds * Speed * 1000)
                  /\ (grabbed /\ ~SumsToZero(pressed)) => Len(new) = Len(old) + 1
                  /\ (/\ grabbed /\ delta_seconds = 1
                      /\ pressed = {key_bindings.forward, key_bindings.right})
                       => Within(Length(new[Len(new)].delta), 12000)
                  /\ (\/ ~grabbed
                      \/ pressed \cap MovementKeys = {}
                      \/ pressed \cap MovementKeys \in OppositePairs)
                       => new = old]_vars

\* C15's case: player_move has moved the spawned camera with forward and
\* right held for one tick, diagonally in the horizontal plane.
C15_Witness ==
    /\ "player_move" \in ran /\ delta_seconds = 1
    /\ pressed = {key_bindings.forward, key_bindings.right}
    /\ cams[1].rotation = SpawnRotation
    /\ Len(cams[1].translation) = 1
    /\ cams[1].translation[1].delta[1] # 0
    /\ cams[1].translation[1].delta[2] = 0
    /\ cams[1].translation[1].delta[3] # 0

\* C16: the rotation player_look writes is the rotation about Y by yaw
\* followed inside by the rotation about X by pitch, in that order of the
\* product; with pitch = 0 it is the rotation about Y by yaw alone; the
\* camera's local x axis stays horizontal (no roll).
C16_YawOuterPitchInner ==
    [][(LookStep /\ read_log' # read_log)
          => LET rot == cams'[1].rotation
             IN  /\ rot = FromAxisAngle("Y", yaw') \o FromAxisAngle("X", pitch')
                 /\ pitch' = 0 => rot = FromAxisAngle("Y", yaw')
                 /\ Rotate(rot, <<1000, 0, 0>>)[2] = 0]_vars

\* C16's case: player_look has read one delta to the right; yaw has turned,
\* pitch is 0 and the camera carries the rotation about Y alone.
C16_Witness ==
    /\ "player_look" \in ran
    /\ window_size = <<1920, 1080>>
    /\ motion = <<DeltaRight>> /\ read_log = <<1>>
    /\ pitch = 0 /\ yaw # 0
    /\ cams[1].rotation = << [axis |-> "Y", angle |-> yaw] >>

\* The events player_look has not read yet, in arrival order.
Pending == [i \in 1..(Len(motion) - last_event_count) |-> motion[last_event_count + i]]

\* The smaller of the window's width and height.
SmallerSide == IF window_size[1] < window_size[2] THEN window_size[1] ELSE window_size[2]

\* What one delta takes from pitch and from yaw.
PitchAmount(ev) == ToRadians(Sensitivity * ev[2] * SmallerSide)
YawAmount(ev) == ToRadians(Sensitivity * ev[1] * SmallerSide)

\* Pitch after the deltas evs, limited to +-1.54 after each one.
RECURSIVE PitchFold(_, _)
PitchFold(p, evs) ==
    IF evs = << >> THEN p
    ELSE LET q == p - PitchAmount(Head(evs))
         IN  PitchFold(IF q < -PitchLimit THEN -PitchLimit
                       ELSE IF q > PitchLimit THEN PitchLimit ELSE q,
                       Tail(evs))

\* The sums of what the deltas evs take from pitch and from yaw.
RECURSIVE PitchSum(_)
PitchSum(evs) == IF evs = << >> THEN 0 ELSE PitchAmount(Head(evs)) + PitchSum(Tail(evs))

RECURSIVE YawSum(_)
YawSum(evs) == IF evs = << >> THEN 0 ELSE YawAmount(Head(evs)) + YawSum(Tail(evs))

\* A player_look step that reads events with the cursor grabbed.
GrabbedLookStep ==
    LookStep /\ primary /\ cursor_grab_mode # "None" /\ cams # << >>

\* C17: the pitch after a grabbed player_look tick is the pitch before it
\* taken through the pending deltas in arrival order, limited after each
\* one; if the deltas all decrease pitch and together pass -1.54, the tick
\* ends with pitch at -1.54 exactly; from -1.54, deltas that do not
\* increase pitch leave it there.
C17_ClampPerDelta ==
    [][GrabbedLookStep
          => /\ pitch' = PitchFold(pitch, Pending)
             /\ (/\ Pending # << >>
                 /\ \A i \in 1..Len(Pending) : Pending[i][2] > 0
                 /\ pitch - PitchSum(Pending) <= -PitchLimit)
                  => pitch' = -PitchLimit
             /\ (/\ pitch = -PitchLimit
                 /\ \A i \in 1..Len(Pending) : Pending[i][2] >= 0)
                  => pitch' = -PitchLimit]_vars

\* C17's case: in the small window three deltas down took pitch to the
\* lower limit and held it there, and the delta up that came last raised it
\* from the limit; limited only after the last delta it would sit at the
\* limit.
C17_Witness ==
    /\ window_size = <<600, 800>>
    /\ motion = <<DeltaLower, DeltaLower, DeltaLower, DeltaRaise>>
    /\ read_log = <<1, 2, 3, 4>>
    /\ cursor_grab_mode # "None"
    /\ pitch = -PitchLimit - PitchAmount(DeltaRaise)

\* C19: a grabbed player_look tick takes from yaw radians(sensitivity * dx
\* * scale) for each pending delta, and from pitch radians(sensitivity * dy
\* * scale) for a single one that stays inside the limits, with scale the
\* smaller of the window's height and width; deltas with dy = 0 leave
\* pitch, deltas with dx = 0 leave yaw; the window with width and height
\* exchanged gives the same result; in a 1920 x 1080 window dx = 100
\* takes 0.226 rad from yaw.
C19_DeltaTurnsByWindowScale ==
    [][GrabbedLookStep
          => /\ yaw' = yaw - YawSum(Pending)
             /\ (/\ Len(Pending) = 1
                 /\ Abs(pitch - PitchSum(Pending)) <= PitchLimit)
                  => pitch' = pitch - PitchSum(Pending)
             /\ (\A i \in 1..Len(Pending) : Pending[i][2] = 0) => pitch' = pitch
             /\ (\A i \in 1..Len(Pending) : Pending[i][1] = 0) => yaw' = yaw
             /\ (window_size = <<1920, 1080>> /\ Pending = << <<100, 0>> >>)
                  => yaw' = yaw - 226 /\ pitch' = pitch
             /\ LET s == [cams |-> cams, pitch |-> pitch, yaw |-> yaw,
                          last_event_count |-> last_event_count]
                IN  PlayerLookState(s, primary, cursor_grab_mode,
                                    <<window_size[2], window_size[1]>>, motion)
                        = PlayerLookState(s, primary, cursor_grab_mode,
                                          window_size, motion)]_vars

\* C19's case: in a window 1080 wide and 1920 high a grabbed player_look
\* has read one delta with dx = 100, dy = 0 and turned yaw by what the
\* width gives.
C19_Witness ==
    /\ "player_look" \in ran /\ cursor_grab_mode # "None"
    /\ window_size = <<1080, 1920>>
    /\ motion = <<DeltaRight>> /\ read_log = <<1>>
    /\ pitch = 0
    /\ yaw = -ToRadians(Sensitivity * 100 * 1080)

====
